---- MODULE Spec2Model ----
(***************************************************************************)
(* Model of HackathonTeamFormation (src/3.py): form_teams (construction    *)
(* loop and redistribution of the remaining participants) followed by      *)
(* balance_teams.                                                          *)
(*                                                                         *)
(* A string is a sequence of one-character strings, so that str.lower()    *)
(* and str.title() are computed character by character.  A participant is  *)
(* the record of one spreadsheet row: id stands for the columns that make  *)
(* the row unique (name, email, phone), role and score are the columns     *)
(* 'role' and 'evaluation score'.  A dict is the sequence of its items in  *)
(* insertion order.  Scores are ints; averages are Python floats, and the  *)
(* model computes them with the rounding of the float operations.          *)
(***************************************************************************)
EXTENDS Integers, Sequences, FiniteSets, TLC

VARIABLES participants, team_types, remaining_participants, teams, team_idx,
          formed, role, pc, p_idx, improved, iterations, run, calls, swaps,
          floor_filled, at_cap

vars == <<participants, team_types, remaining_participants, teams, team_idx,
          formed, role, pc, p_idx, improved, iterations, run, calls, swaps,
          floor_filled, at_cap>>

(***************************************************************************)
(* Bounds of the model.                                                    *)
(***************************************************************************)
MaxPeople == 3
MaxScore == 2
MaxTeams == 5
MaxRoleMin == 1
MaxRoleMax == 2
MaxMinMembers == 2
MaxMaxMembers == 3
MaxBalTeams == 3
MaxBalPeople == 3
MaxBalScore == 4

(* balance_teams: while improved and iterations < 100 *)
MaxIterations == 100

(***************************************************************************)
(* Strings.                                                                *)
(***************************************************************************)
LowerChar(c) ==
  CASE c = "D" -> "d" [] c = "E" -> "e" [] c = "V" -> "v"
    [] c = "Q" -> "q" [] c = "A" -> "a" [] c = "B" -> "b" [] OTHER -> c

UpperChar(c) ==
  CASE c = "d" -> "D" [] c = "e" -> "E" [] c = "v" -> "V"
    [] c = "q" -> "Q" [] c = "a" -> "A" [] c = "b" -> "B" [] OTHER -> c

IsCased(c) == LowerChar(c) # c \/ UpperChar(c) # c

(* str.lower() *)
Lower(s) == [i \in 1..Len(s) |-> LowerChar(s[i])]

(* str.title(): a cased character is upper-cased when it follows an        *)
(* uncased character or starts the string, lower-cased otherwise.          *)
Title(s) ==
  [i \in 1..Len(s) |->
     IF i = 1 \/ ~IsCased(s[i-1]) THEN UpperChar(s[i]) ELSE LowerChar(s[i])]

Dev == <<"D", "e", "v">>
QA == <<"Q", "A">>

(* Role names used as keys of a 'roles' dict, and role strings of the      *)
(* participants' rows.                                                     *)
RoleKeys == {Dev, QA}
PoolRoles == {Lower(Dev), QA}

(***************************************************************************)
(* Sequence helpers (Python list operations).                              *)
(***************************************************************************)
(* s[-n:] for n > 0, in place of s[:n] *)
TakeLast(s, n) ==
  SubSeq(s, (IF n < Len(s) THEN Len(s) - n ELSE 0) + 1, Len(s))

(* s[:n] *)
Take(s, n) == SubSeq(s, 1, IF n < Len(s) THEN n ELSE Len(s))

(* list.remove(x): removes the first element equal to x *)
Remove(s, x) ==
  IF \E i \in 1..Len(s) : s[i] = x
  THEN LET k == CHOOSE i \in 1..Len(s) :
                  s[i] = x /\ \A j \in 1..(i-1) : s[j] # x
       IN  SubSeq(s, 1, k-1) \o SubSeq(s, k+1, Len(s))
  ELSE s

(* for p in selected: s.remove(p) *)
RECURSIVE RemoveAll(_, _)
RemoveAll(s, selected) ==
  IF selected = <<>> THEN s
  ELSE RemoveAll(Remove(s, Head(selected)), Tail(selected))

(* Insert with the comparison > in place of >=: equal scores come out in   *)
(* reverse input order                                                     *)
RECURSIVE InsertUnstable(_, _)
InsertUnstable(s, p) ==
  IF s = <<>> THEN <<p>>
  ELSE IF Head(s).score > p.score
       THEN <<Head(s)>> \o InsertUnstable(Tail(s), p)
  ELSE <<p>> \o s

(* insertion of p into a list sorted by descending score, after every      *)
(* element with a score >= p.score (stable)                                *)
RECURSIVE Insert(_, _)
Insert(s, p) ==
  IF s = <<>> THEN <<p>>
  ELSE IF Head(s).score >= p.score THEN <<Head(s)>> \o Insert(Tail(s), p)
  ELSE <<p>> \o s

(* list.sort(key=lambda x: x['evaluation score'], reverse=True) *)
RECURSIVE SortByScore(_)
SortByScore(s) ==
  IF s = <<>> THEN <<>>
  ELSE Insert(SortByScore(SubSeq(s, 1, Len(s)-1)), s[Len(s)])

(* sum(m['evaluation score'] for m in s) *)
RECURSIVE SumScoreIn(_, _, _)
SumScoreIn(s, lo, hi) ==
  IF lo > hi THEN 0
  ELSE IF lo = hi THEN s[lo].score
  ELSE LET mid == (lo + hi) \div 2
       IN  SumScoreIn(s, lo, mid) + SumScoreIn(s, mid + 1, hi)

SumScore(s) == SumScoreIn(s, 1, Len(s))

(* the members of the first k teams of ts, team after team *)
RECURSIVE Members(_, _)
Members(ts, k) ==
  IF k = 0 THEN <<>> ELSE Members(ts, k - 1) \o ts[k].members

(* [p for p in s if p['role'].lower() == role_lower] *)
Available(s, role_lower) ==
  SelectSeq(s, LAMBDA p : Lower(p.role) = role_lower)

(* sum(1 for m in members if m['role'].lower() == role_lower) *)
RoleCount(members, role_lower) == Len(Available(members, role_lower))

(***************************************************************************)
(* Templates (the values of the team_types dict) and input pools.          *)
(***************************************************************************)
Scores == 1..MaxScore

(* the rows of the spreadsheet: 'dev' rows of every score, 'QA' rows of    *)
(* the lowest and of the highest                                           *)
Rows ==
  {[role |-> r, score |-> n] : r \in PoolRoles, n \in Scores} \
    {[role |-> QA, score |-> n] : n \in 2..(MaxScore - 1)}

Pools == UNION {[1..n -> Rows] : n \in 0..MaxPeople}

(* self.participants = self.df.to_dict('records') *)
Records(rows) ==
  [i \in 1..Len(rows) |->
     [id |-> i, role |-> rows[i].role, score |-> rows[i].score]]

(* the items of a 'roles' dict: {'min': .., 'max': ..} for a role name,    *)
(* min > max included                                                      *)
Requirement(key) ==
  {[role |-> key, min |-> lo, max |-> hi] :
     lo \in {0, MaxRoleMin}, hi \in {0, MaxRoleMin, MaxRoleMax}}

(* a second role that is disallowed (max 0) or required (min = max) *)
SecondRequirement(key) ==
  {[role |-> key, min |-> n, max |-> n] : n \in {0, MaxRoleMin}}

(* 'roles' dicts of one role name, or of Dev followed by QA *)
RolesDicts ==
  {<<r>> : r \in Requirement(Dev) \cup SecondRequirement(QA)}
    \cup {<<r1, r2>> : r1 \in Requirement(Dev), r2 \in SecondRequirement(QA)}

(* (min_members, max_members): a team of at most one, a team with room, a  *)
(* team that needs the floor-fill, and min_members > max_members           *)
SizeLimits ==
  {<<0, 1>>, <<1, MaxMaxMembers>>, <<MaxMinMembers, MaxMaxMembers>>,
   <<MaxMinMembers, 1>>}

TypeConfigs ==
  {[min_members |-> m[1], max_members |-> m[2], roles |-> r] :
     m \in SizeLimits, r \in RolesDicts}

(* 0 <= min_members <= max_members and 0 <= min <= max for every role *)
Valid(type_config) ==
  /\ type_config.min_members <= type_config.max_members
  /\ \A k \in 1..Len(type_config.roles) :
       type_config.roles[k].min <= type_config.roles[k].max

(* the team_types dicts: one type, or two types of one role each *)
PairConfigs ==
  {c \in TypeConfigs :
     /\ Len(c.roles) = 1
     /\ c.min_members = 1
     /\ c.max_members = MaxMaxMembers
     /\ c.roles[1].min = MaxRoleMin
     /\ Valid(c)}

TeamTypes ==
  {<<c>> : c \in TypeConfigs}
    \cup {<<c1, c2>> : c1 \in PairConfigs, c2 \in PairConfigs}

(* the example scenario: four rows of role 'A', two of role 'B', and one   *)
(* type of exactly three members, two 'A' and one 'B'                      *)
ExamplePool ==
  <<[role |-> <<"A">>, score |-> 90], [role |-> <<"A">>, score |-> 80],
    [role |-> <<"A">>, score |-> 70], [role |-> <<"A">>, score |-> 60],
    [role |-> <<"B">>, score |-> 95], [role |-> <<"B">>, score |-> 50]>>

ExampleTypes ==
  <<[min_members |-> 3, max_members |-> 3,
     roles |-> <<[role |-> <<"A">>, min |-> 2, max |-> 2],
                 [role |-> <<"B">>, min |-> 1, max |-> 1]>>]>>

(* five 'dev' rows that make a team of two and a team of three with the    *)
(* same total score, under two types of exactly two and exactly three      *)
(* 'Dev' with room for one more member, and a 'QA' row that remains        *)
TiePool ==
  <<[role |-> Lower(Dev), score |-> 2], [role |-> Lower(Dev), score |-> 2],
    [role |-> Lower(Dev), score |-> 2], [role |-> Lower(Dev), score |-> 1],
    [role |-> Lower(Dev), score |-> 1], [role |-> QA, score |-> 4]>>

TieTypes ==
  <<[min_members |-> 2, max_members |-> 3,
     roles |-> <<[role |-> Dev, min |-> 2, max |-> 2]>>],
    [min_members |-> 3, max_members |-> 4,
     roles |-> <<[role |-> Dev, min |-> 3, max |-> 3]>>]>>

(* type_config['roles'].get(key, {}).get('max', 0) *)
GetMax(roles, key) ==
  IF \E k \in 1..Len(roles) : roles[k].role = key
  THEN roles[CHOOSE k \in 1..Len(roles) : roles[k].role = key].max
  ELSE 0

(***************************************************************************)
(* form_teams, first pass: one team attempt.                               *)
(***************************************************************************)
(* FillMinimums without the test len(available) < needed *)
RECURSIVE FillMinimumsUnchecked(_, _, _, _)
FillMinimumsUnchecked(roles, k, members, remaining) ==
  IF k > Len(roles)
  THEN [formed |-> TRUE, members |-> members, remaining |-> remaining,
        role |-> roles[Len(roles)].role]
  ELSE LET role_lower == Lower(roles[k].role)
           available == Available(remaining, role_lower)
           needed == roles[k].min
           selected == Take(available, needed)
       IN  FillMinimumsUnchecked(roles, k + 1, members \o selected,
                                 RemoveAll(remaining, selected))

(* Try to fill minimum requirements for each role: the for loop over       *)
(* type_config['roles'].items() from item k on.  role is the loop variable *)
(* when the loop ends or breaks.                                           *)
RECURSIVE FillMinimums(_, _, _, _)
FillMinimums(roles, k, members, remaining) ==
  IF k > Len(roles)
  THEN [formed |-> TRUE, members |-> members, remaining |-> remaining,
        role |-> roles[Len(roles)].role]
  ELSE LET role_lower == Lower(roles[k].role)
           available == Available(remaining, role_lower)
           needed == roles[k].min
           selected == Take(available, needed)
       IN  IF Len(available) < needed
           THEN [formed |-> FALSE, members |-> members,
                 remaining |-> remaining, role |-> roles[k].role]
           ELSE FillMinimums(roles, k + 1, members \o selected,
                             RemoveAll(remaining, selected))

(* ExtendToMax with can_add = req['max'], the members already taken for    *)
(* the role not subtracted                                                 *)
RECURSIVE ExtendToMaxNoCount(_, _, _, _)
ExtendToMaxNoCount(roles, k, members, remaining) ==
  IF k > Len(roles)
  THEN [members |-> members, remaining |-> remaining]
  ELSE LET role_lower == Lower(roles[k].role)
           can_add == roles[k].max
           available == Available(remaining, role_lower)
           to_add == IF can_add < Len(available) THEN can_add
                     ELSE Len(available)
           selected == Take(available, to_add)
       IN  IF can_add > 0 /\ to_add > 0
           THEN ExtendToMaxNoCount(roles, k + 1, members \o selected,
                                   RemoveAll(remaining, selected))
           ELSE ExtendToMaxNoCount(roles, k + 1, members, remaining)

(* Try to add more members up to max limits: the second for loop over the  *)
(* roles, from item k on.                                                  *)
RECURSIVE ExtendToMax(_, _, _, _)
ExtendToMax(roles, k, members, remaining) ==
  IF k > Len(roles)
  THEN [members |-> members, remaining |-> remaining]
  ELSE LET role_lower == Lower(roles[k].role)
           current == RoleCount(members, role_lower)
           can_add == roles[k].max - current
           available == Available(remaining, role_lower)
           to_add == IF can_add < Len(available) THEN can_add
                     ELSE Len(available)
           selected == Take(available, to_add)
       IN  IF can_add > 0 /\ to_add > 0
           THEN ExtendToMax(roles, k + 1, members \o selected,
                            RemoveAll(remaining, selected))
           ELSE ExtendToMax(roles, k + 1, members, remaining)

(* Ensure total team size is within limits: add any remaining participants *)
(* to meet min team size.                                                  *)
FloorFill(type_config, members, remaining) ==
  LET current_size == Len(members)
      needed == type_config.min_members - current_size
      to_add == IF needed < Len(remaining) THEN needed ELSE Len(remaining)
      selected == Take(remaining, to_add)
  IN  IF current_size < type_config.min_members /\ to_add > 0
      THEN [members |-> members \o selected,
            remaining |-> RemoveAll(remaining, selected)]
      ELSE [members |-> members, remaining |-> remaining]

(* the cycle begun at the second type *)
CurrentTypeNext == ((team_idx + 1) % Len(team_types)) + 1

(* team_type_order[team_idx % len(team_type_order)], as a position in the  *)
(* dict                                                                    *)
CurrentType == (team_idx % Len(team_types)) + 1

MinFilled ==
  FillMinimums(team_types[CurrentType].roles, 1, <<>>,
               remaining_participants)

MaxFilled ==
  ExtendToMax(team_types[CurrentType].roles, 1, MinFilled.members,
              MinFilled.remaining)

Filled ==
  FloorFill(team_types[CurrentType], MaxFilled.members, MaxFilled.remaining)

(* One iteration of 'while True' that appends the team. *)
CommitTeam ==
  /\ pc = "construct"
  /\ Len(teams) < MaxTeams
  /\ MinFilled.formed
  /\ Len(Filled.members) >= team_types[CurrentType].min_members
  /\ teams' = Append(teams, [type |-> CurrentType,
                             members |-> Filled.members])
  /\ floor_filled' = Append(floor_filled,
                            Len(Filled.members) > Len(MaxFilled.members))
  /\ team_idx' = team_idx + 1
  /\ remaining_participants' = Filled.remaining
  /\ formed' = TRUE
  /\ role' = MinFilled.role
  /\ UNCHANGED <<participants, team_types, pc, p_idx, improved, iterations,
                 run, calls, swaps, at_cap>>

(* One iteration of 'while True' that breaks because a role minimum is not *)
(* met, followed by the sort that opens the second pass.                   *)
AbortRoleMinimum ==
  /\ pc = "construct"
  /\ Len(teams) < MaxTeams
  /\ ~MinFilled.formed
  /\ formed' = FALSE
  /\ role' = MinFilled.role
  /\ remaining_participants' = SortByScore(MinFilled.remaining)
  /\ pc' = "distribute"
  /\ p_idx' = 1
  /\ UNCHANGED <<participants, team_types, teams, team_idx, improved,
                 iterations, run, calls, swaps, floor_filled, at_cap>>

(* RejectUnderSize without line 121: the members taken are not returned *)
RejectUnderSizeKeep ==
  /\ pc = "construct"
  /\ Len(teams) < MaxTeams
  /\ MinFilled.formed
  /\ Len(Filled.members) < team_types[CurrentType].min_members
  /\ formed' = TRUE
  /\ role' = MinFilled.role
  /\ remaining_participants' = SortByScore(Filled.remaining)
  /\ pc' = "distribute"
  /\ p_idx' = 1
  /\ UNCHANGED <<participants, team_types, teams, team_idx, improved,
                 iterations, run, calls, swaps, floor_filled, at_cap>>

(* One iteration of 'while True' that returns the members to the pool and  *)
(* breaks, followed by the sort that opens the second pass.                *)
RejectUnderSize ==
  /\ pc = "construct"
  /\ Len(teams) < MaxTeams
  /\ MinFilled.formed
  /\ Len(Filled.members) < team_types[CurrentType].min_members
  /\ formed' = TRUE
  /\ role' = MinFilled.role
  /\ remaining_participants' = SortByScore(Filled.remaining \o Filled.members)
  /\ pc' = "distribute"
  /\ p_idx' = 1
  /\ UNCHANGED <<participants, team_types, teams, team_idx, improved,
                 iterations, run, calls, swaps, floor_filled, at_cap>>

(***************************************************************************)
(* Python floats: IEEE 754 binary64, round to nearest, ties to even.  A    *)
(* natural number of any size is the sequence of its digits in base        *)
(* 2^LimbBits, least significant first, without leading zeros.  A float is *)
(* [neg, m, e] for the value (-1)^neg * m * 2^e, with m of exactly         *)
(* Precision bits, or Zero.  The values formed by the program stay far     *)
(* from the overflow and subnormal ranges, so e is unbounded here.         *)
(***************************************************************************)
Precision == 53

LimbBits == 15

Base == 2 ^ LimbBits

RECURSIVE Trim(_)
Trim(s) ==
  IF s # <<>> /\ s[Len(s)] = 0 THEN Trim(SubSeq(s, 1, Len(s) - 1)) ELSE s

(* the digits of a natural number below Base * Base *)
Digits(n) ==
  IF n = 0 THEN <<>>
  ELSE IF n < Base THEN <<n>>
  ELSE <<n % Base, n \div Base>>

(* the least k in lo..hi with n < 2^k *)
RECURSIVE BitLengthIn(_, _, _)
BitLengthIn(n, lo, hi) ==
  IF lo = hi THEN lo
  ELSE LET mid == (lo + hi) \div 2
       IN  IF n < 2 ^ mid THEN BitLengthIn(n, lo, mid)
           ELSE BitLengthIn(n, mid + 1, hi)

BitLength(n) == BitLengthIn(n, 0, 2 * LimbBits)

Bits(s) ==
  IF s = <<>> THEN 0 ELSE LimbBits * (Len(s) - 1) + BitLength(s[Len(s)])

IsOdd(s) == s # <<>> /\ s[1] % 2 = 1

(* s * n + carry from digit i on, for n below Base *)
RECURSIVE MulFrom(_, _, _, _)
MulFrom(s, n, i, carry) ==
  IF i > Len(s) THEN (IF carry = 0 THEN <<>> ELSE <<carry>>)
  ELSE LET v == s[i] * n + carry
       IN  <<v % Base>> \o MulFrom(s, n, i + 1, v \div Base)

MulSmall(s, n) == IF n = 0 THEN <<>> ELSE MulFrom(s, n, 1, 0)

(* the digits i down to 1 of the quotient of s by n, for n below Base; rem *)
(* is the remainder of the digits above i                                  *)
RECURSIVE QuotientFrom(_, _, _, _)
QuotientFrom(s, n, i, rem) ==
  IF i = 0 THEN <<>>
  ELSE LET v == rem * Base + s[i]
       IN  Append(QuotientFrom(s, n, i - 1, v % n), v \div n)

RECURSIVE RemainderFrom(_, _, _, _)
RemainderFrom(s, n, i, rem) ==
  IF i = 0 THEN rem
  ELSE RemainderFrom(s, n, i - 1, (rem * Base + s[i]) % n)

RECURSIVE AddFrom(_, _, _, _)
AddFrom(a, b, i, carry) ==
  IF i > Len(a) /\ i > Len(b) THEN (IF carry = 0 THEN <<>> ELSE <<carry>>)
  ELSE LET v == (IF i <= Len(a) THEN a[i] ELSE 0)
                  + (IF i <= Len(b) THEN b[i] ELSE 0) + carry
       IN  <<v % Base>> \o AddFrom(a, b, i + 1, v \div Base)

AddBig(a, b) == AddFrom(a, b, 1, 0)

(* a - b for a >= b *)
RECURSIVE SubFrom(_, _, _, _)
SubFrom(a, b, i, borrow) ==
  IF i > Len(a) THEN <<>>
  ELSE LET v == a[i] - (IF i <= Len(b) THEN b[i] ELSE 0) - borrow
       IN  <<v % Base>> \o SubFrom(a, b, i + 1, IF v < 0 THEN 1 ELSE 0)

SubBig(a, b) == Trim(SubFrom(a, b, 1, 0))

(* a < b, comparing from digit i down *)
RECURSIVE LessFrom(_, _, _)
LessFrom(a, b, i) ==
  IF i = 0 THEN FALSE
  ELSE IF a[i] # b[i] THEN a[i] < b[i]
  ELSE LessFrom(a, b, i - 1)

LessBig(a, b) ==
  IF Len(a) # Len(b) THEN Len(a) < Len(b) ELSE LessFrom(a, b, Len(a))

RECURSIVE Zeros(_)
Zeros(n) == IF n = 0 THEN <<>> ELSE <<0>> \o Zeros(n - 1)

(* s * 2^k *)
ShiftLeft(s, k) ==
  IF s = <<>> THEN <<>>
  ELSE Zeros(k \div LimbBits) \o MulFrom(s, 2 ^ (k % LimbBits), 1, 0)

(* s \div 2^k *)
ShiftRight(s, k) ==
  Trim(QuotientFrom(SubSeq(s, k \div LimbBits + 1, Len(s)),
                    2 ^ (k % LimbBits), Len(s) - k \div LimbBits, 0))

(* bit k of s, and whether a bit below it is set *)
Bit(s, k) == (s[k \div LimbBits + 1] \div 2 ^ (k % LimbBits)) % 2 = 1

AnyBelow(s, k) ==
  \/ s[k \div LimbBits + 1] % 2 ^ (k % LimbBits) # 0
  \/ \E i \in 1..(k \div LimbBits) : s[i] # 0

Zero == [neg |-> FALSE, m |-> <<>>, e |-> 0]

(* the float nearest to (-1)^neg * x * 2^e, for x = s when sticky is       *)
(* false, and for an x with s < x < s + 1 when it is true (s is then of    *)
(* more than Precision + 1 bits)                                           *)
Round(neg, s, e, sticky) ==
  LET d == Bits(s) - Precision
  IN  IF s = <<>> THEN Zero
      ELSE IF d = 0 THEN [neg |-> neg, m |-> s, e |-> e]
      ELSE IF d < 0 THEN [neg |-> neg, m |-> ShiftLeft(s, -d), e |-> e + d]
      ELSE LET q == ShiftRight(s, d)
               up == /\ Bit(s, d - 1)
                     /\ sticky \/ AnyBelow(s, d - 1) \/ IsOdd(q)
               r == IF ~up THEN q
                    ELSE IF q[1] < Base - 1 THEN [q EXCEPT ![1] = @ + 1]
                    ELSE AddBig(q, <<1>>)
           IN  IF Bits(r) > Precision
               THEN [neg |-> neg, m |-> ShiftRight(r, 1), e |-> e + d + 1]
               ELSE [neg |-> neg, m |-> r, e |-> e + d]

(* float(n) for an int n *)
Float(n) == Round(n < 0, Digits(IF n < 0 THEN -n ELSE n), 0, FALSE)

FloatNeg(x) == IF x = Zero THEN Zero ELSE [x EXCEPT !.neg = ~x.neg]

FloatAbs(x) == [x EXCEPT !.neg = FALSE]

(* x + y *)
FloatAdd(x, y) ==
  IF x = Zero THEN y
  ELSE IF y = Zero THEN x
  ELSE LET hi == IF x.e >= y.e THEN x ELSE y
           lo == IF x.e >= y.e THEN y ELSE x
           a == ShiftLeft(hi.m, hi.e - lo.e)
           b == lo.m
       IN  IF hi.neg = lo.neg THEN Round(hi.neg, AddBig(a, b), lo.e, FALSE)
           ELSE IF a = b THEN Zero
           ELSE IF LessBig(a, b)
           THEN Round(lo.neg, SubBig(b, a), lo.e, FALSE)
           ELSE Round(hi.neg, SubBig(a, b), lo.e, FALSE)

(* x - y *)
FloatSub(x, y) == FloatAdd(x, FloatNeg(y))

(* x * n for an int n, 0 < n < Base *)
FloatMul(x, n) == Round(x.neg, MulSmall(x.m, n), x.e, FALSE)

(* x / n for an int n, 0 < n < Base: the quotient of x.m * Base^2 by n has *)
(* more than Precision + 1 bits                                            *)
FloatDiv(x, n) ==
  LET s == <<0, 0>> \o x.m
  IN  IF x = Zero THEN Zero
      ELSE Round(x.neg, Trim(QuotientFrom(s, n, Len(s), 0)),
                 x.e - 2 * LimbBits, RemainderFrom(s, n, Len(s), 0) # 0)

(* x < y *)
FloatLess(x, y) ==
  LET below(a, b) ==
        /\ b # Zero
        /\ \/ a = Zero
           \/ a.e < b.e
           \/ a.e = b.e /\ LessBig(a.m, b.m)
  IN  IF x.neg # y.neg THEN x.neg
      ELSE IF x.neg THEN below(y, x)
      ELSE below(x, y)

(***************************************************************************)
(* form_teams, second pass: distribute remaining participants.             *)
(* CanAccept without the size test of lines 141-142 *)
CanAcceptAnySize(team, p) ==
  LET type_config == team_types[team.type]
      role_count == RoleCount(team.members, Lower(p.role))
      role_max == GetMax(type_config.roles, Title(role))
  IN  ~(role_max > 0 /\ role_count >= role_max)

(***************************************************************************)
(* The tests that make the scan 'continue' past a team: the size test and  *)
(* the role limit test.  The role limit is looked up under role.title(),   *)
(* role being the loop variable left by the first pass.                    *)
CanAccept(team, p) ==
  LET type_config == team_types[team.type]
      current_size == Len(team.members)
      role_count == RoleCount(team.members, Lower(p.role))
      role_max == GetMax(type_config.roles, Title(role))
  IN  /\ ~(current_size >= type_config.max_members)
      /\ ~(role_max > 0 /\ role_count >= role_max)

(* score_diff = new_avg - current_avg *)
ScoreDiff(team, p) ==
  LET current_size == Len(team.members)
      total == SumScore(team.members)
      current_avg == IF current_size > 0
                     THEN FloatDiv(Float(total), current_size)
                     ELSE Zero
      new_avg == FloatDiv(Float(total + p.score), current_size + 1)
  IN  FloatSub(new_avg, current_avg)

(* for i, team in enumerate(teams): the scan from team i on; best is the   *)
(* value of best_team_idx (0 for None), best_diff that of best_score_diff  *)
(* once best is set (before that it is float('-inf'), below any            *)
(* score_diff).                                                            *)
RECURSIVE BestTeam(_, _, _, _)
(* Compare with >= in place of >: the last of the best teams is kept *)
CompareLatest(p, i, best, best_diff, score_diff) ==
  IF best = 0 \/ ~FloatLess(score_diff, best_diff)
  THEN BestTeam(p, i + 1, i, score_diff)
  ELSE BestTeam(p, i + 1, best, best_diff)

(* if score_diff > best_score_diff: team i becomes the best team *)
Compare(p, i, best, best_diff, score_diff) ==
  IF best = 0 \/ FloatLess(best_diff, score_diff)
  THEN BestTeam(p, i + 1, i, score_diff)
  ELSE BestTeam(p, i + 1, best, best_diff)

BestTeam(p, i, best, best_diff) ==
  IF i > Len(teams) THEN best
  ELSE IF CanAccept(teams[i], p)
  THEN Compare(p, i, best, best_diff, ScoreDiff(teams[i], p))
  ELSE BestTeam(p, i + 1, best, best_diff)

(* One iteration of 'for p in remaining_participants': p_idx is the        *)
(* position of the list iterator, which advances by one whatever the body  *)
(* removes from the list.                                                  *)
Distribute ==
  /\ pc = "distribute"
  /\ p_idx <= Len(remaining_participants)
  /\ \E best_team_idx \in
          {BestTeam(remaining_participants[p_idx], 1, 0, Zero)} :
       LET p == remaining_participants[p_idx]
       IN  IF best_team_idx # 0
           THEN /\ teams' = [teams EXCEPT ![best_team_idx].members =
                                            Append(@, p)]
                /\ remaining_participants' =
                     Remove(remaining_participants, p)
           ELSE UNCHANGED <<teams, remaining_participants>>
  /\ p_idx' = p_idx + 1
  /\ UNCHANGED <<participants, team_types, team_idx, formed, role, pc,
                 improved, iterations, run, calls, swaps, floor_filled, at_cap>>

(* return teams, remaining_participants; the caller then calls             *)
(* balance_teams(teams, team_types), which sets improved and iterations.   *)
FormTeamsReturn ==
  /\ pc = "distribute"
  /\ p_idx > Len(remaining_participants)
  /\ pc' = "balance"
  /\ improved' = TRUE
  /\ iterations' = 0
  /\ run' = 1
  /\ UNCHANGED <<participants, team_types, remaining_participants, teams,
                 team_idx, formed, role, p_idx, calls, swaps, floor_filled,
                 at_cap>>

(***************************************************************************)
(* balance_teams.                                                          *)
(***************************************************************************)
(* team_metrics for teams 1 to k: avg_score and size.  scaled is the       *)
(* product avg_score * size, which the scan forms for every pair of        *)
(* members.  The entry of a team without members has no 'size'; the scan   *)
(* reads none of it.                                                       *)
Metric(avg_score, size) ==
  [avg_score |-> avg_score, size |-> size,
   scaled |-> FloatMul(avg_score, size)]

RECURSIVE MetricsTo(_)
MetricsTo(k) ==
  IF k = 0 THEN <<>>
  ELSE Append(MetricsTo(k - 1),
              IF teams[k].members = <<>>
              THEN [avg_score |-> Zero, size |-> 0, scaled |-> Zero]
              ELSE Metric(FloatDiv(Float(SumScore(teams[k].members)),
                                   Len(teams[k].members)),
                          Len(teams[k].members)))

TeamMetrics == MetricsTo(Len(teams))

(* (avg_score * size - out + in) / size *)
NewAvg(m, out, in) ==
  FloatDiv(FloatAdd(FloatSub(m.scaled, Float(out.score)), Float(in.score)),
           m.size)

(* current_imbalance for the teams with metrics mi and mj *)
CurrentImbalance(mi, mj) == FloatAbs(FloatSub(mi.avg_score, mj.avg_score))

(* Improves with <= in place of < *)
ImprovesOrEqual(mi, mj, m1, m2, current_imbalance) ==
  ~FloatLess(current_imbalance,
             FloatAbs(FloatSub(NewAvg(mi, m1, m2), NewAvg(mj, m2, m1))))

(* new_imbalance < current_imbalance for the swap of m1 (of the team with  *)
(* metrics mi) and m2 (of the team with metrics mj)                        *)
Improves(mi, mj, m1, m2, current_imbalance) ==
  LET new_avg_i_score == NewAvg(mi, m1, m2)
      new_avg_j_score == NewAvg(mj, m2, m1)
      new_imbalance == FloatAbs(FloatSub(new_avg_i_score, new_avg_j_score))
  IN  FloatLess(new_imbalance, current_imbalance)

(* Accepted without the test m1['role'] == m2['role'] *)
AcceptedAnyRole(mi, mj, m1, m2, current_imbalance) ==
  Improves(mi, mj, m1, m2, current_imbalance)

(* the tests of the innermost loop body: equal role strings and a smaller  *)
(* imbalance                                                               *)
Accepted(mi, mj, m1, m2, current_imbalance) ==
  /\ m1.role = m2.role
  /\ Improves(mi, mj, m1, m2, current_imbalance)

(* for m2 in teams[j]['members']: the positions lo to hi, for the m1 at    *)
(* position a.  The position of the first accepted m2, or 0 when there is  *)
(* none; the first half of the positions is tried before the second.       *)
RECURSIVE ScanRow(_, _, _, _, _, _, _)
ScanRow(metrics, i, j, a, lo, hi, current_imbalance) ==
  IF lo > hi THEN 0
  ELSE IF lo = hi
  THEN IF Accepted(metrics[i], metrics[j], teams[i].members[a],
                   teams[j].members[lo], current_imbalance)
       THEN lo
       ELSE 0
  ELSE LET mid == (lo + hi) \div 2
           first == ScanRow(metrics, i, j, a, lo, mid, current_imbalance)
       IN  IF first # 0 THEN first
           ELSE ScanRow(metrics, i, j, a, mid + 1, hi, current_imbalance)

(* the positions a and b of an accepted pair, or <<>> when b is 0 *)
Pair(a, b) == IF b # 0 THEN <<a, b>> ELSE <<>>

(* for m1 in teams[i]['members']: the positions lo to hi.  The positions   *)
(* of the first accepted pair, or <<>>.                                    *)
RECURSIVE ScanMembers(_, _, _, _, _, _)
ScanMembers(metrics, i, j, lo, hi, current_imbalance) ==
  IF lo > hi THEN <<>>
  ELSE IF lo = hi
  THEN Pair(lo, ScanRow(metrics, i, j, lo, 1, Len(teams[j].members),
                        current_imbalance))
  ELSE LET mid == (lo + hi) \div 2
           first == ScanMembers(metrics, i, j, lo, mid, current_imbalance)
       IN  IF first # <<>> THEN first
           ELSE ScanMembers(metrics, i, j, mid + 1, hi, current_imbalance)

(* for i in range(len(teams)): for j in range(i+1, len(teams)): from the   *)
(* teams i and j on, skipping pairs of different type.  The teams and the  *)
(* positions of the first accepted pair, or <<>>.                          *)
RECURSIVE ScanTeams(_, _, _)
(* the accepted pair found in the teams i and j, or the scan from the next *)
(* pair of teams on                                                        *)
FoundOrNext(metrics, i, j, found) ==
  IF found # <<>> THEN <<i, j>> \o found ELSE ScanTeams(metrics, i, j + 1)

ScanTeams(metrics, i, j) ==
  IF i > Len(teams) THEN <<>>
  ELSE IF j > Len(teams) THEN ScanTeams(metrics, i + 1, i + 2)
  ELSE IF teams[i].type # teams[j].type THEN ScanTeams(metrics, i, j + 1)
  ELSE FoundOrNext(metrics, i, j,
                   ScanMembers(metrics, i, j, 1, Len(teams[i].members),
                               CurrentImbalance(metrics[i], metrics[j])))

FirstSwap == ScanTeams(TeamMetrics, 1, 2)

(* Perform the swap *)
Swap(i, j, m1, m2) ==
  [teams EXCEPT ![i].members = Append(Remove(@, m1), m2),
                ![j].members = Append(Remove(@, m2), m1)]

(* the loop variables after an iteration that swapped: improved = True,    *)
(* iterations += 1                                                         *)
AfterSwapUnflagged == [improved |-> FALSE, iterations |-> iterations + 1]

AfterSwap == [improved |-> TRUE, iterations |-> iterations + 1]

(* the loop condition without the limit on iterations *)
LoopContinuesUncapped == improved

(* while improved and iterations < 100 *)
LoopContinues == improved /\ iterations < MaxIterations

(* One iteration of 'while improved and iterations < 100': the first       *)
(* accepted swap is performed and the four loops are left, or the scan     *)
(* ends without a swap.                                                    *)
BalanceIteration ==
  /\ pc = "balance"
  /\ LoopContinues
  /\ \E found \in {FirstSwap} :
       IF found # <<>>
       THEN /\ teams' = Swap(found[1], found[2],
                             teams[found[1]].members[found[3]],
                             teams[found[2]].members[found[4]])
            /\ improved' = AfterSwap.improved
            /\ iterations' = AfterSwap.iterations
            /\ swaps' = swaps + 1
       ELSE /\ improved' = FALSE
            /\ iterations' = iterations + 1
            /\ UNCHANGED <<teams, swaps>>
  /\ UNCHANGED <<participants, team_types, remaining_participants, team_idx,
                 formed, role, pc, p_idx, run, calls, floor_filled, at_cap>>

(* return teams.  Where the run calls balance_teams twice, the first       *)
(* result is handed to the second call; at_cap records whether the first   *)
(* call returned with improved still true, that is, at the iteration       *)
(* limit.                                                                  *)
BalanceReturn ==
  /\ pc = "balance"
  /\ ~LoopContinues
  /\ IF run < calls
     THEN /\ run' = run + 1
          /\ at_cap' = improved
          /\ improved' = TRUE
          /\ iterations' = 0
          /\ pc' = "balance"
     ELSE /\ pc' = "done"
          /\ UNCHANGED <<run, improved, iterations, at_cap>>
  /\ UNCHANGED <<participants, team_types, remaining_participants, teams,
                 team_idx, formed, role, p_idx, calls, swaps, floor_filled>>

(***************************************************************************)
(* The run: form_teams on a pool and a team_types dict, then balance_teams *)
(* on its result.                                                          *)
(***************************************************************************)
Init ==
  /\ \/ /\ \E rows \in Pools : participants = Records(rows)
        /\ team_types \in TeamTypes
     \/ /\ participants = Records(ExamplePool)
        /\ team_types = ExampleTypes
     \/ /\ participants = Records(TiePool)
        /\ team_types = TieTypes
  /\ remaining_participants = SortByScore(participants)
  /\ teams = <<>>
  /\ team_idx = 0
  /\ formed = TRUE
  /\ role = <<>>
  /\ pc = "construct"
  /\ p_idx = 1
  /\ improved = TRUE
  /\ iterations = 0
  /\ run = 1
  /\ calls = 1
  /\ swaps = 0
  /\ floor_filled = <<>>
  /\ at_cap = FALSE

Next ==
  \/ CommitTeam
  \/ AbortRoleMinimum
  \/ RejectUnderSize
  \/ Distribute
  \/ FormTeamsReturn
  \/ BalanceIteration
  \/ BalanceReturn

Spec == Init /\ [][Next]_vars

(***************************************************************************)
(* balance_teams called twice on a list of teams of one type: MaxBalTeams  *)
(* teams, some perhaps without members, that hold MaxBalPeople members     *)
(* together; UnevenTeams; and CapTeams, two teams large enough for the     *)
(* first call to reach the iteration limit: one swap of a 1 against a 0 is *)
(* accepted per iteration.                                                 *)
(***************************************************************************)
BalRoles == {Lower(Dev), Dev}

(* rows of role 'dev', but for the last, which is 'dev' or 'Dev' *)
BalPools ==
  {[i \in 1..MaxBalPeople |->
      [role |-> IF i = MaxBalPeople THEN r ELSE Lower(Dev),
       score |-> f[i]]] :
     f \in [1..MaxBalPeople -> 1..MaxBalScore], r \in BalRoles}

RECURSIVE SumTo(_, _)
SumTo(f, k) == IF k = 0 THEN 0 ELSE f[k] + SumTo(f, k - 1)

(* the sizes of k teams that hold n members together, smallest first *)
Shapes(n, k) ==
  {f \in [1..k -> 0..n] :
     /\ SumTo(f, k) = n
     /\ \A t \in 1..(k - 1) : f[t] <= f[t + 1]}

TeamsOf(rows, sizes) ==
  [t \in 1..Len(sizes) |->
     [type |-> 1,
      members |-> SubSeq(Records(rows), SumTo(sizes, t - 1) + 1,
                         SumTo(sizes, t))]]

CapTeams ==
  LET n == MaxIterations + 1
  IN  << [type |-> 1,
          members |-> [i \in 1..(n + 1) |->
                         [id |-> i, role |-> Lower(Dev),
                          score |-> IF i <= n THEN 1 ELSE n + 1]]],
         [type |-> 1,
          members |-> [i \in 1..(n + 1) |->
                         [id |-> n + 1 + i, role |-> Lower(Dev),
                          score |-> 0]]] >>

(* teams of different sizes, none without members: two teams of one       *)
(* member of the lowest score and a team of the two highest scores         *)
UnevenTeams ==
  TeamsOf(<<[role |-> Lower(Dev), score |-> 1],
            [role |-> Lower(Dev), score |-> 1],
            [role |-> Lower(Dev), score |-> MaxBalScore],
            [role |-> Lower(Dev), score |-> MaxBalScore - 1]>>,
          <<1, 1, 2>>)

(* a team of one and a team of three whose averages are thirds: the swap   *)
(* of the 1 and a 3 leaves the difference of the averages at 4/3           *)
ThirdsTeams ==
  TeamsOf(<<[role |-> Lower(Dev), score |-> 1],
            [role |-> Lower(Dev), score |-> 3],
            [role |-> Lower(Dev), score |-> 3],
            [role |-> Lower(Dev), score |-> 1]>>,
          <<1, 3>>)

DefaultTypes ==
  LET c == [min_members |-> 0, max_members |-> MaxBalPeople,
            roles |-> <<[role |-> Dev, min |-> 0, max |-> MaxBalPeople]>>]
  IN  <<c, c>>

InitBal ==
  /\ \/ \E rows \in BalPools, sizes \in Shapes(MaxBalPeople, MaxBalTeams) :
          teams = TeamsOf(rows, sizes)
     \/ teams = UnevenTeams
     \/ teams = ThirdsTeams
     \/ teams = CapTeams
  /\ participants = Members(teams, Len(teams))
  /\ team_types = DefaultTypes
  /\ remaining_participants = <<>>
  /\ team_idx = Len(teams)
  /\ formed = TRUE
  /\ role = Dev
  /\ pc = "balance"
  /\ p_idx = 1
  /\ improved = TRUE
  /\ iterations = 0
  /\ run = 1
  /\ calls = 2
  /\ swaps = 0
  /\ floor_filled = [t \in 1..Len(teams) |-> FALSE]
  /\ at_cap = FALSE

NextBal ==
  \/ BalanceIteration
  \/ BalanceReturn

SpecBal == InitBal /\ [][NextBal]_vars

(***************************************************************************)
(* Properties.                                                             *)
(***************************************************************************)
Returned == pc \in {"balance", "done"}

Occurrences(s, x) == Cardinality({k \in 1..Len(s) : s[k] = x})

Placed == Members(teams, Len(teams)) \o remaining_participants

AllValid == \A t \in 1..Len(team_types) : Valid(team_types[t])

(* C1: when form_teams has returned (team types with min <= max            *)
(* throughout), every input participant appears exactly once in the teams' *)
(* member lists and the returned remaining list together, and their        *)
(* lengths add up to the number of participants.                           *)
Conservation ==
  (Returned /\ AllValid) =>
    /\ Len(Placed) = Len(participants)
    /\ \A i \in 1..Len(participants) :
         Occurrences(Placed, participants[i]) = 1

(* C2: every team in teams has a size between min_members and max_members  *)
(* of its type, when that type has min_members <= max_members and          *)
(* min <= max for every role.                                              *)
SizeBound ==
  \A t \in 1..Len(teams) :
    Valid(team_types[teams[t].type]) =>
      /\ Len(teams[t].members) >= team_types[teams[t].type].min_members
      /\ Len(teams[t].members) <= team_types[teams[t].type].max_members

Declares(roles, role_lower) ==
  \E k \in 1..Len(roles) : Lower(roles[k].role) = role_lower

DeclaredMax(roles, role_lower) ==
  roles[CHOOSE k \in 1..Len(roles) : Lower(roles[k].role) = role_lower].max

Last(s) == s[Len(s)]

(* C3: a step of the second pass that appends a participant to a team      *)
(* whose type declares the participant's lower-cased role leaves the       *)
(* team's count of that role at most the max declared for it.              *)
RedistributionRoleMax ==
  [][(pc = "distribute" /\ AllValid) =>
       \A t \in 1..Len(teams) :
         (/\ Len(teams'[t].members) > Len(teams[t].members)
          /\ Declares(team_types[teams[t].type].roles,
                      Lower(Last(teams'[t].members).role)))
         => RoleCount(teams'[t].members, Lower(Last(teams'[t].members).role))
              <= DeclaredMax(team_types[teams[t].type].roles,
                             Lower(Last(teams'[t].members).role))]_vars

(* C4: during the first pass, in every team built from a type with         *)
(* min <= max throughout and not topped up by the floor-fill step, the     *)
(* count of each declared role lies between that role's min and max.       *)
RoleBoundsAtConstruction ==
  pc = "construct" =>
    \A t \in 1..Len(teams) :
      (Valid(team_types[teams[t].type]) /\ ~floor_filled[t]) =>
        \A k \in 1..Len(team_types[teams[t].type].roles) :
          LET req == team_types[teams[t].type].roles[k]
              count == RoleCount(teams[t].members, Lower(req.role))
          IN  req.min <= count /\ count <= req.max

(* a team just built without floor-fill holds max members of a role whose  *)
(* max exceeds its min, while more participants of that role are waiting   *)
RoleBoundsWitness ==
  /\ pc = "construct"
  /\ teams # <<>>
  /\ ~floor_filled[Len(teams)]
  /\ Valid(team_types[Last(teams).type])
  /\ \E k \in 1..Len(team_types[Last(teams).type].roles) :
       LET req == team_types[Last(teams).type].roles[k]
       IN  /\ req.min < req.max
           /\ RoleCount(Last(teams).members, Lower(req.role)) = req.max
           /\ Available(remaining_participants, Lower(req.role)) # <<>>

(* the global imbalance: the sum over the pairs of teams of the same type  *)
(* of abs(avg_i - avg_j), multiplied by the product of the team sizes (an  *)
(* empty team has average 0 and counts with size 1)                        *)
Magnitude(x) == IF x < 0 THEN -x ELSE x

Size1(ts, t) == IF Len(ts[t].members) = 0 THEN 1 ELSE Len(ts[t].members)

RECURSIVE SizeProduct(_, _)
SizeProduct(ts, k) ==
  IF k = 0 THEN 1 ELSE Size1(ts, k) * SizeProduct(ts, k - 1)

PairTerm(ts, i, j) ==
  IF ts[i].type = ts[j].type
  THEN Magnitude(SumScore(ts[i].members) * Size1(ts, j)
             - SumScore(ts[j].members) * Size1(ts, i))
         * (SizeProduct(ts, Len(ts)) \div (Size1(ts, i) * Size1(ts, j)))
  ELSE 0

RECURSIVE SumPairs(_, _, _)
SumPairs(ts, i, j) ==
  IF i >= Len(ts) THEN 0
  ELSE IF j > Len(ts) THEN SumPairs(ts, i + 1, i + 2)
  ELSE PairTerm(ts, i, j) + SumPairs(ts, i, j + 1)

GlobalImbalance(ts) == SumPairs(ts, 1, 2)

(* C5: no step of balance_teams increases the global imbalance.            *)
MonotonicImprovement ==
  [][pc = "balance" => GlobalImbalance(teams') <= GlobalImbalance(teams)]_vars

Changed == {t \in 1..Len(teams) : teams'[t] # teams[t]}

ExactCount(members, r) ==
  Cardinality({k \in 1..Len(members) : members[k].role = r})

(* C6: a step of balance_teams that changes teams changes exactly two of   *)
(* them, keeps the type, the size and the count of every role string and   *)
(* of every lower-cased role in both, and keeps the number of occurrences  *)
(* of every participant across all teams.                                  *)
SwapNeutrality ==
  [][(pc = "balance" /\ teams' # teams) =>
       /\ Len(teams') = Len(teams)
       /\ Cardinality(Changed) = 2
       /\ \A t \in Changed :
            /\ teams'[t].type = teams[t].type
            /\ Len(teams'[t].members) = Len(teams[t].members)
            /\ \A r \in BalRoles \cup PoolRoles :
                 /\ ExactCount(teams'[t].members, r)
                      = ExactCount(teams[t].members, r)
                 /\ RoleCount(teams'[t].members, Lower(r))
                      = RoleCount(teams[t].members, Lower(r))
       /\ \A i \in 1..Len(participants) :
            Occurrences(Members(teams', Len(teams')), participants[i])
              = Occurrences(Members(teams, Len(teams)), participants[i])]_vars

(* a swap has happened among three teams, between members whose teams also *)
(* hold a member of another role string                                    *)
SwapNeutralityWitness ==
  /\ swaps > 0
  /\ Len(teams) >= 3
  /\ \E t \in 1..Len(teams) :
       \E a, b \in 1..Len(teams[t].members) :
         teams[t].members[a].role # teams[t].members[b].role

(* C7 as stated: no step of the second call of balance_teams changes the   *)
(* teams.                                                                  *)
SecondRunNoSwap == [][run = 2 => teams' = teams]_vars

(* C7 amended: when the first call returned because a full pass accepted   *)
(* no swap, no step of the second call changes the teams.                  *)
SecondRunNoSwapAtFixpoint ==
  [][(run = 2 /\ ~at_cap) => teams' = teams]_vars

(* the second call has returned after a first call that swapped and then   *)
(* stopped on a pass without swap                                          *)
FixpointWitness == pc = "done" /\ run = 2 /\ ~at_cap /\ swaps > 0

Position(s, x) == CHOOSE k \in 1..Len(s) : s[k] = x

InTeams(x) == Occurrences(Members(teams, Len(teams)), x) > 0

RoleMinimumsHeld ==
  \A t \in 1..Len(teams) :
    \A k \in 1..Len(team_types[teams[t].type].roles) :
      RoleCount(teams[t].members,
                Lower(team_types[teams[t].type].roles[k].role))
        >= team_types[teams[t].type].roles[k].min

(* C9: an attempt that finds fewer participants of a role than the type's  *)
(* min appends no team and ends the first pass, no team is appended once   *)
(* the first pass has ended, and every team holds at least min members of  *)
(* each role its type declares, in every state up to the end of the run.   *)
RoleMinimumMandatory ==
  /\ []RoleMinimumsHeld
  /\ [][/\ (pc = "construct" /\ ~MinFilled.formed)
             => (teams' = teams /\ pc' # "construct")
        /\ pc # "construct" => (Len(teams') = Len(teams)
                                  /\ pc' # "construct")]_vars

(* the run has ended after a first pass that built a team and was then     *)
(* stopped by a role minimum, a second pass that placed someone, and a     *)
(* swap                                                                    *)
RoleMinimumWitness ==
  /\ pc = "done"
  /\ ~formed
  /\ teams # <<>>
  /\ swaps > 0
  /\ Len(Members(teams, Len(teams))) > 0

(* the team is below max_members and taking p would not put the count of   *)
(* p's role above the max its type declares for that role                  *)
Candidate(team, p) ==
  LET roles == team_types[team.type].roles
  IN  /\ Len(team.members) < team_types[team.type].max_members
      /\ Declares(roles, Lower(p.role)) =>
           RoleCount(team.members, Lower(p.role)) + 1
             <= DeclaredMax(roles, Lower(p.role))

(* C10: when form_teams has returned (team types with min <= max           *)
(* throughout), no team is a candidate for any participant of the returned *)
(* remaining list.                                                         *)
NoCandidateTeam ==
  (Returned /\ AllValid) =>
    \A k \in 1..Len(remaining_participants) :
      \A t \in 1..Len(teams) :
        ~Candidate(teams[t], remaining_participants[k])

(* C11: a team_types dict with a type whose min_members exceeds its        *)
(* max_members, or with a role whose min exceeds its max, is rejected: no  *)
(* team is ever built from it.                                             *)
ConfigurationError == ~AllValid => teams = <<>>

(* a step that ends a call of balance_teams *)
Returns == pc' = "done" \/ run' = run + 1

FormTeamsReturned == pc = "balance" /\ run = 1 /\ iterations = 0

(* the members of a team as a set of role and score *)
RoleScores(team) ==
  {<<team.members[k].role, team.members[k].score>> :
     k \in 1..Len(team.members)}

(* C13: a step of the first pass that appends a team leaves in the pool no *)
(* participant with a higher score than a member of that team of the same  *)
(* lower-cased role; and on the example scenario form_teams returns the    *)
(* teams {A-90, A-80, B-95} and {A-70, A-60, B-50} and nobody remaining.   *)
TopPerformersFirst ==
  /\ [][(pc = "construct" /\ Len(teams') > Len(teams)) =>
          \A a \in 1..Len(Last(teams').members) :
            \A b \in 1..Len(remaining_participants') :
              Lower(remaining_participants'[b].role)
                  = Lower(Last(teams').members[a].role)
                => Last(teams').members[a].score
                     >= remaining_participants'[b].score]_vars
  /\ [](/\ participants = Records(ExamplePool)
        /\ team_types = ExampleTypes
        /\ FormTeamsReturned
        => /\ Len(teams) = 2
           /\ RoleScores(teams[1])
                = {<<(<<"A">>), 90>>, <<(<<"A">>), 80>>, <<(<<"B">>), 95>>}
           /\ RoleScores(teams[2])
                = {<<(<<"A">>), 70>>, <<(<<"A">>), 60>>, <<(<<"B">>), 50>>}
           /\ remaining_participants = <<>>)

(* form_teams has returned on the example scenario with two teams *)
TopPerformersWitness ==
  /\ participants = Records(ExamplePool)
  /\ team_types = ExampleTypes
  /\ FormTeamsReturned
  /\ Len(teams) = 2

(* the increase of the average of team by p is lower than that of other,   *)
(* as exact fractions: (n * p - S) / (n * (n + 1)) for a team of n > 0     *)
(* members of total score S, and p for a team without members              *)
IncreaseNum(team, p) ==
  IF team.members = <<>> THEN p.score
  ELSE Len(team.members) * p.score - SumScore(team.members)

IncreaseDen(team) ==
  IF team.members = <<>> THEN 1
  ELSE Len(team.members) * (Len(team.members) + 1)

ExactLower(team, other, p) ==
  IncreaseNum(team, p) * IncreaseDen(other)
    < IncreaseNum(other, p) * IncreaseDen(team)

(* the same, for the increases as the floats the code computes *)
ComputedLower(team, other, p) ==
  FloatLess(ScoreDiff(team, p), ScoreDiff(other, p))

Descending(s) ==
  \A a, b \in 1..Len(s) : a < b => s[a].score >= s[b].score

(* during the second pass the remaining list is in descending score order, *)
(* and a step that adds to a team adds the participant at the iterator's   *)
(* position to a team that accepts it, with no accepting team of a higher  *)
(* increase and no earlier accepting team of the same increase             *)
PlacementRule(Lower_(_, _, _)) ==
  pc = "distribute" =>
       /\ Descending(remaining_participants)
       /\ \A t \in 1..Len(teams) :
            Len(teams'[t].members) > Len(teams[t].members) =>
              /\ teams'[t].members
                   = Append(teams[t].members, remaining_participants[p_idx])
              /\ CanAccept(teams[t], remaining_participants[p_idx])
              /\ \A u \in 1..Len(teams) :
                   CanAccept(teams[u], remaining_participants[p_idx]) =>
                     /\ ~Lower_(teams[t], teams[u],
                                remaining_participants[p_idx])
                     /\ u < t => Lower_(teams[u], teams[t],
                                        remaining_participants[p_idx])

RoundRobin ==
  /\ team_idx = Len(teams)
  /\ \A k \in 1..Len(teams) :
       teams[k].type = ((k - 1) % Len(team_types)) + 1

(* form_teams has returned with the cycle of two types begun again: a      *)
(* third team with members, of the first type                              *)
RoundRobinWitness ==
  /\ FormTeamsReturned
  /\ Len(team_types) = 2
  /\ Len(teams) >= 3
  /\ teams[2].type = 2
  /\ teams[3].type = 1
  /\ teams[3].members # <<>>

Ids(s) == {s[k].id : k \in 1..Len(s)}

(* the attempt at hand meets every role minimum and stays below            *)
(* min_members after the floor fill                                        *)
UnderSize ==
  /\ pc = "construct"
  /\ MinFilled.formed
  /\ Len(Filled.members) < team_types[CurrentType].min_members

(* C16: an attempt that met every role minimum and is below min_members    *)
(* after the floor fill appends no team and leaves in the pool every       *)
(* person that was in it before the attempt, those taken included; the     *)
(* loop is left, and once it is left no team is appended any more.         *)
UnderSizeRejection ==
  /\ [][UnderSize =>
          /\ teams' = teams
          /\ Len(remaining_participants') = Len(remaining_participants)
          /\ Ids(remaining_participants') = Ids(remaining_participants)
          /\ Ids(Filled.members) \subseteq Ids(remaining_participants')
          /\ pc' = "distribute"]_vars
  /\ [][pc # "construct" =>
          /\ pc' # "construct"
          /\ Len(teams') = Len(teams)]_vars

(* the loop was left by an under-size attempt after a committed team, the  *)
(* second pass is about to start with people in the pool                   *)
UnderSizeWitness ==
  /\ pc = "distribute"
  /\ formed
  /\ p_idx = 1
  /\ teams # <<>>
  /\ remaining_participants # <<>>
  /\ AllValid

(* C17: a step of the second pass adds to a team only if the team has      *)
(* fewer than max_members members, so a team of at most max_members        *)
(* members has at most max_members members after the step.                 *)
RedistributionSizeCap ==
  [][pc = "distribute" =>
       \A t \in 1..Len(teams) :
         LET max_members == team_types[teams[t].type].max_members
         IN  /\ Len(teams'[t].members) > Len(teams[t].members)
                  => Len(teams[t].members) < max_members
             /\ Len(teams[t].members) <= max_members
                  => Len(teams'[t].members) <= max_members]_vars

(* form_teams has returned with a team of max_members members and a person *)
(* left whom the team's role limit test lets pass: the size test alone     *)
(* kept the second pass from adding the person                             *)
SizeCapWitness ==
  /\ FormTeamsReturned
  /\ AllValid
  /\ remaining_participants # <<>>
  /\ \E t \in 1..Len(teams) :
       /\ Len(teams[t].members) = team_types[teams[t].type].max_members
       /\ CanAcceptAnySize(teams[t], remaining_participants[1])

(* |S_i / n_i - S_j / n_j| times n_i * n_j, for the teams i and j of ts *)
ExactGap(ts, i, j) ==
  Magnitude(SumScore(ts[i].members) * Len(ts[j].members)
              - SumScore(ts[j].members) * Len(ts[i].members))

(* the exchange of member a of team i and member b of team j makes the     *)
(* difference of the two teams' averages smaller, as exact fractions       *)
ExactReduces(i, j, a, b) ==
  ExactGap(Swap(i, j, teams[i].members[a], teams[j].members[b]), i, j)
    < ExactGap(teams, i, j)

(* the same, for the floats the code computes from the team metrics *)
ComputedReduces(i, j, a, b) ==
  FloatLess(FloatAbs(FloatSub(NewAvg(TeamMetrics[i], teams[i].members[a],
                                     teams[j].members[b]),
                              NewAvg(TeamMetrics[j], teams[j].members[b],
                                     teams[i].members[a]))),
            FloatAbs(FloatSub(TeamMetrics[i].avg_score,
                              TeamMetrics[j].avg_score)))

(* member a of team i and member b of team j are of the same role, in     *)
(* teams of the same type                                                  *)
Exchangeable(i, j, a, b) ==
  /\ teams[i].type = teams[j].type
  /\ teams[i].members[a].role = teams[j].members[b].role

(* no exchange that the scan looks at before <<i, j, a, b>> reduces *)
NoneBefore(Reduces(_, _, _, _), i, j, a, b) ==
  \A i2 \in 1..i :
    \A j2 \in (i2 + 1)..(IF i2 = i THEN j ELSE Len(teams)) :
      \A a2 \in 1..(IF i2 = i /\ j2 = j
                     THEN a ELSE Len(teams[i2].members)) :
        \A b2 \in 1..(IF i2 = i /\ j2 = j /\ a2 = a
                       THEN b - 1 ELSE Len(teams[j2].members)) :
          Exchangeable(i2, j2, a2, b2) => ~Reduces(i2, j2, a2, b2)

(* a step of balance_teams that swaps performs the first exchange in scan  *)
(* order (team pairs i < j, then the members of i, then those of j), among *)
(* those of two members of the same role in teams of the same type, that   *)
(* reduces the difference of the averages; the flag that makes the next    *)
(* iteration scan from the top is set                                      *)
SwapRule(Reduces(_, _, _, _)) ==
  (pc = "balance" /\ swaps' # swaps) =>
    /\ improved'
    /\ \E i \in 1..Len(teams) :
         \E j \in (i + 1)..Len(teams) :
           \E a \in 1..Len(teams[i].members) :
             \E b \in 1..Len(teams[j].members) :
               /\ teams' = Swap(i, j, teams[i].members[a],
                                teams[j].members[b])
               /\ Exchangeable(i, j, a, b)
               /\ Reduces(i, j, a, b)
               /\ NoneBefore(Reduces, i, j, a, b)

AllocatorTermination ==
  [][(pc = "construct" /\ AllValid) =>
       ~(/\ pc' = "construct"
         /\ remaining_participants' = remaining_participants
         /\ CurrentType' = CurrentType)]_vars

====
